---- MODULE Spec2Model ----
(***************************************************************************)
(* KenKen solver (kenken.py): construction of the puzzle from its data     *)
(* file, the constraint predicate with its cage checks, and the CSP engine *)
(* (backtracking search, AC-3) that consults the predicate.                *)
(***************************************************************************)
EXTENDS Integers, Sequences, FiniteSets, TLC

VARIABLES
    pc,            \* where the program is: open, goals, built, ready, ac3, search, ...
    N,             \* self.N
    cage_board,    \* self.cage_board[i][j], as a function of <<i, j>>
    cage_dict,     \* self.cage_dict: cage id -> Cage(goal, opr, id, vars)
    nread,         \* goal lines read so far (the loop index of line 59)
    neighbors,     \* self.neighbors: var -> list of vars
    curr_domains,  \* kenken_csp.curr_domains: var -> list of values
    assignment,    \* the search's assignment dict
    stack,         \* the recursion stack of backtrack()
    queue,         \* the AC-3 worklist
    select         \* "first" (first_unassigned_variable) or "mrv"

vars == <<pc, N, cage_board, cage_dict, nread, neighbors, curr_domains,
          assignment, stack, queue, select>>

\* Largest board size of the single-cage boards.
MaxN == 3

\* Goals of the goal lines range over 1..MaxGoal.
MaxGoal == 3

\* The value of an absent optional argument (B = None, b = None).
None == "None"

----------------------------------------------------------------------------
(* Inputs: the data file.                                                  *)

\* Board layouts of the data file: N lines of N cage ids.
Boards ==
    { << <<"A", "A">>, <<"B", "B">> >>,
      << <<"A", "B">>, <<"A", "B">> >>,
      << <<"A", "B">>, <<"C", "B">> >>,
      << <<"A", "A">>, <<"A", "B">> >> }

\* The board of size n whose cells all belong to one cage.
OneCage(n) == [i \in 1..n |-> [j \in 1..n |-> "A"]]

\* Operator tokens of a goal line: the five operators and an unknown one.
OprTokens == {"+", "-", "*", "/", "=", "^"}

----------------------------------------------------------------------------
(* Kenken: helpers.                                                        *)

variables(n) == 0 .. (n * n - 1)

domains(n) == [v \in variables(n) |-> [i \in 1..n |-> i]]

variable_to_xy(n, var) == <<var \div n, var % n>>

xy_to_variable(n, i, j) == i * n + j

InList(x, s) == \E k \in 1..Len(s) : s[k] = x

Max(x, y) == IF x >= y THEN x ELSE y

Min(x, y) == IF x <= y THEN x ELSE y

Abs(x) == IF x >= 0 THEN x ELSE -x

\* operator.add / operator.mul
ApplyFn(fn, x, y) == IF fn = "mul" THEN x * y ELSE x + y

Bool(b) == IF b THEN "True" ELSE "False"

----------------------------------------------------------------------------
(* Kenken.__init__: the board, the goal lines, the neighbors.              *)

\* A fresh Cage(name), lines 9-13, with the members appended at line 56
\* in the order the board is read (row by row).
NewCage(n, b, name) ==
    LET all == [k \in 1..(n * n) |-> k - 1]
        Member(v) == b[variable_to_xy(n, v)[1] + 1][variable_to_xy(n, v)[2] + 1] = name
    IN  [goal |-> -1, opr |-> "", id |-> name, vars |-> SelectSeq(all, Member)]

CageIds(n, b) == {b[i][j] : i \in 1..n, j \in 1..n}

\* Lines 38-56: N, the board and the cages with their members.
LoadBoard(b) ==
    LET n == Len(b)
    IN  /\ N' = n
        /\ cage_board' = [p \in (0..(n - 1)) \X (0..(n - 1)) |-> b[p[1] + 1][p[2] + 1]]
        /\ cage_dict' = [id \in CageIds(n, b) |-> NewCage(n, b, id)]
        /\ nread' = 0
        /\ pc' = "goals"
        /\ UNCHANGED <<neighbors, curr_domains, assignment, stack, queue, select>>

ReadBoard ==
    /\ pc = "open"
    /\ \E b \in Boards : LoadBoard(b)

ReadOneCageBoard ==
    /\ pc = "open"
    /\ \E n \in 1..MaxN : LoadBoard(OneCage(n))

\* ArityOk without the branch for "/": quotient cages go unchecked.
ArityOkNoQuotient(opr, cage) ==
    IF opr = "-" THEN Len(cage.vars) = 2
    ELSE IF opr = "=" THEN Len(cage.vars) = 1
    ELSE TRUE

\* ArityOk without the branch for "=": fixed-value cages go unchecked.
ArityOkNoFixed(opr, cage) ==
    IF opr = "-" \/ opr = "/" THEN Len(cage.vars) = 2
    ELSE TRUE

\* The asserts of lines 70-75 on the cage a goal line names.
ArityOk(opr, cage) ==
    IF opr = "-" \/ opr = "/" THEN Len(cage.vars) = 2
    ELSE IF opr = "=" THEN Len(cage.vars) = 1
    ELSE TRUE

\* One iteration of the loop of lines 59-75: a goal line "id:<goal><opr>".
ReadGoal ==
    /\ pc = "goals"
    /\ nread < Cardinality(DOMAIN cage_dict)
    /\ \E cage_id \in DOMAIN cage_dict, opr \in OprTokens, goal \in 1..MaxGoal :
          /\ cage_dict' = [cage_dict EXCEPT ![cage_id].opr = opr, ![cage_id].goal = goal]
          /\ nread' = nread + 1
          /\ pc' = IF ArityOk(opr, cage_dict[cage_id]) THEN "goals" ELSE "config_error"
    /\ UNCHANGED <<N, cage_board, neighbors, curr_domains, assignment, stack, queue, select>>

\* NeighborIter without the test "_ != col": the variable itself is appended.
NeighborIterNoSkip(n, list, v, k) ==
    LET row == variable_to_xy(n, v)[1]
        col == variable_to_xy(n, v)[2]
        l1 == IF k # row THEN Append(list, xy_to_variable(n, k, col)) ELSE list
    IN  Append(l1, xy_to_variable(n, row, k))

\* The body of the loop of lines 86-93 for variable v and index k.
NeighborIter(n, list, v, k) ==
    LET row == variable_to_xy(n, v)[1]
        col == variable_to_xy(n, v)[2]
        l1 == IF k # row THEN Append(list, xy_to_variable(n, k, col)) ELSE list
    IN  IF k # col THEN Append(l1, xy_to_variable(n, row, k)) ELSE l1

RECURSIVE NeighborLoop(_, _, _, _)
NeighborLoop(n, list, v, k) ==
    IF k >= n THEN list
    ELSE NeighborLoop(n, NeighborIter(n, list, v, k), v, k + 1)

\* Lines 82-93, the end of __init__.
BuildNeighbors ==
    /\ pc = "goals"
    /\ nread = Cardinality(DOMAIN cage_dict)
    /\ neighbors' = [v \in variables(N) |-> NeighborLoop(N, <<>>, v, 0)]
    /\ pc' = "built"
    /\ UNCHANGED <<N, cage_board, cage_dict, nread, curr_domains, assignment, stack,
                   queue, select>>

\* Line 234: kenken_csp = csp.CSP(variables, domains, neighbors, constraints).
NewCSP ==
    /\ pc = "built"
    /\ curr_domains' = domains(N)
    /\ pc' = "ready"
    /\ UNCHANGED <<N, cage_board, cage_dict, nread, neighbors, assignment, stack,
                   queue, select>>

Init ==
    /\ pc = "open"
    /\ N = 0
    /\ cage_board = <<>>
    /\ cage_dict = <<>>
    /\ nread = 0
    /\ neighbors = <<>>
    /\ curr_domains = <<>>
    /\ assignment = <<>>
    /\ stack = <<>>
    /\ queue = <<>>
    /\ select = "first"

----------------------------------------------------------------------------
(* The CSP object's views of the current domains, as the predicate reads   *)
(* them through the global kenken_csp.                                     *)

\* CSP.infer_assignment(): the variables whose current domain is one value.
infer_assignment(doms) ==
    [v \in {w \in DOMAIN doms : Len(doms[w]) = 1} |-> doms[v][1]]

\* CSP.choices(var): the current domain of var.
choices(doms, var) == doms[var]

----------------------------------------------------------------------------
(* Kenken: the constraint predicate and its cage checks.                   *)

get_cage(X) == cage_dict[cage_board[variable_to_xy(N, X)]]

\* The loop of lines 155-164 from member k on; acc holds total and allocated.
RECURSIVE cage_loop(_, _, _, _, _)
cage_loop(inferences, fn, members, k, acc) ==
    IF k > Len(members) THEN acc
    ELSE LET V == members[k]
         IN  IF V \in DOMAIN inferences
             THEN cage_loop(inferences, fn, members, k + 1,
                            [total |-> ApplyFn(fn, acc.total, inferences[V]),
                             allocated |-> acc.allocated + 1])
             ELSE cage_loop(inferences, fn, members, k + 1, acc)

check_add_or_mul_cage(inferences, fn, A, a, B, b) ==
    LET cage == get_cage(A)
        r == cage_loop(inferences, fn, cage.vars, 1,
                       [total |-> IF fn = "mul" THEN 1 ELSE 0, allocated |-> 0])
    IN  IF r.total < cage.goal /\ r.allocated < Len(cage.vars) THEN TRUE
        ELSE IF r.total = cage.goal /\ r.allocated = Len(cage.vars) THEN TRUE
        ELSE FALSE

\* check_sub_or_div_cage with the partner picked by the wrong test
\* (X != A for X != B), which makes Y the variable X itself.
check_sub_or_div_cage_self(inferences, doms, fn, X, x) ==
    LET cage == get_cage(X)
        A == cage.vars[1]
        B == cage.vars[2]
        Y == IF X # A THEN B ELSE A
    IN  IF Y \in DOMAIN inferences
        THEN LET y == inferences[Y]
             IN  Max(x, y) = ApplyFn(fn, Min(x, y), cage.goal)
        ELSE \E k \in 1..Len(choices(doms, Y)) :
                 LET y == choices(doms, Y)[k]
                 IN  Max(x, y) = ApplyFn(fn, Min(x, y), cage.goal)

check_sub_or_div_cage(inferences, doms, fn, X, x) ==
    LET cage == get_cage(X)
        A == cage.vars[1]
        B == cage.vars[2]
        Y == IF X # B THEN B ELSE A
    IN  IF Y \in DOMAIN inferences
        THEN LET y == inferences[Y]
             IN  Max(x, y) = ApplyFn(fn, Min(x, y), cage.goal)
        ELSE \E k \in 1..Len(choices(doms, Y)) :
                 LET y == choices(doms, Y)[k]
                 IN  Max(x, y) = ApplyFn(fn, Min(x, y), cage.goal)

\* "True", "False", or "AssertUnknown" for the assert of line 212.
check_cage_constraint(inferences, doms, X, x) ==
    LET cage == get_cage(X)
    IN  IF cage.opr = "+"
        THEN Bool(check_add_or_mul_cage(inferences, "add", X, x, None, None))
        ELSE IF cage.opr = "-"
        THEN Bool(check_sub_or_div_cage(inferences, doms, "add", X, x))
        ELSE IF cage.opr = "*"
        THEN Bool(check_add_or_mul_cage(inferences, "mul", X, x, None, None))
        ELSE IF cage.opr = "/"
        THEN Bool(check_sub_or_div_cage(inferences, doms, "mul", X, x))
        ELSE IF cage.opr = "="
        THEN Bool(x = cage.goal)
        ELSE "AssertUnknown"

\* Python's "p and q" on results that may be a raised assertion: q is not
\* evaluated when p is false, and a raised assertion propagates.
AndThen(p, q) == IF p = "True" THEN q ELSE p

\* Lines 130-147: the dispatch on the cages of A and B.
cage_dispatch(doms, A, a, B, b) ==
    LET cage_A == get_cage(A)
        cage_B == get_cage(B)
        inferences == infer_assignment(doms)
    IN  IF cage_A.id = cage_B.id
        THEN IF cage_A.opr = "+"
             THEN Bool(check_add_or_mul_cage(inferences, "add", A, a, B, b))
             ELSE IF cage_A.opr = "-"
             THEN Bool(Abs(a - b) = cage_A.goal)
             ELSE IF cage_A.opr = "*"
             THEN Bool(check_add_or_mul_cage(inferences, "mul", A, a, B, b))
             ELSE IF cage_A.opr = "/"
             THEN Bool(Max(a, b) = Min(a, b) * cage_A.goal)
             ELSE IF cage_A.opr = "="
             THEN "AssertEq"
             ELSE "AssertUnknown"
        ELSE AndThen(check_cage_constraint(inferences, doms, A, a),
                     check_cage_constraint(inferences, doms, B, b))

\* neighbor_clash with each variable looked up in its own neighbor list.
neighbor_clash_own_list(A, a, B, b) ==
    \/ InList(B, neighbors[B]) /\ a = b
    \/ InList(A, neighbors[A]) /\ a = b

\* Lines 119-124: equal values on two variables of one row or column.
neighbor_clash(A, a, B, b) ==
    \/ InList(B, neighbors[A]) /\ a = b
    \/ InList(A, neighbors[B]) /\ a = b

\* Kenken.constraints(A, a, B, b) with kenken_csp's current domains doms:
\* "True", "False", or the assertion that was raised.
constraints(doms, A, a, B, b) ==
    IF A = B THEN "AssertSame"
    ELSE IF neighbor_clash(A, a, B, b) THEN "False"
    ELSE cage_dispatch(doms, A, a, B, b)

IsAssert(r) == r \notin {"True", "False"}

----------------------------------------------------------------------------
(* The CSP engine: backtracking search.                                    *)

\* The results of the predicate for var = val against every assigned neighbor.
conflict_results(doms, asg, var, val) ==
    {constraints(doms, var, val, neighbors[var][k], asg[neighbors[var][k]]) :
        k \in {i \in 1..Len(neighbors[var]) : neighbors[var][i] \in DOMAIN asg}}

\* CSP.nconflicts(var, val, assignment) == 0, or the assertion raised.
no_conflicts(doms, asg, var, val) ==
    LET rs == conflict_results(doms, asg, var, val)
    IN  IF \E r \in rs : IsAssert(r) THEN "Assert"
        ELSE Bool("False" \notin rs)

Unassigned(asg) == {v \in variables(N) : v \notin DOMAIN asg}

SetMin(S) == CHOOSE x \in S : \A y \in S : x <= y

\* first_unassigned_variable, or mrv with the lowest variable on a tie.
select_unassigned_variable(how, doms, asg) ==
    IF how = "mrv"
    THEN LET least == SetMin({Len(doms[v]) : v \in Unassigned(asg)})
         IN  SetMin({v \in Unassigned(asg) : Len(doms[v]) = least})
    ELSE SetMin(Unassigned(asg))

\* A frame of backtrack(): its variable, the values it iterates over, how
\* many it has tried, and the removals of the value being explored.
Frame(var, doms) == [var |-> var, vals |-> choices(doms, var), k |-> 0, removals |-> <<>>]

\* CSP.suppose(var, value): the other values of var, removed from its domain.
suppose_removals(doms, var, value) ==
    SelectSeq(doms[var], LAMBDA x : x # value)

Without(f, v) == [w \in (DOMAIN f) \ {v} |-> f[w]]

With(f, v, x) == [w \in (DOMAIN f) \cup {v} |-> IF w = v THEN x ELSE f[w]]

Top == stack[Len(stack)]

Pop(s) == SubSeq(s, 1, Len(s) - 1)

\* backtracking_search(csp, select_unassigned_variable): the first frame.
StartSearch ==
    /\ pc = "ready"
    /\ assignment' = [v \in {} |-> 0]
    /\ stack' = <<Frame(select_unassigned_variable(select, curr_domains, <<>>), curr_domains)>>
    /\ pc' = "search"
    /\ UNCHANGED <<N, cage_board, cage_dict, nread, neighbors, curr_domains, queue, select>>

\* One iteration of the loop over the values of the top frame's variable:
\* assign the value when it conflicts with no assigned neighbor, and recurse.
TryValue ==
    /\ pc = "search"
    /\ Top.k < Len(Top.vals)
    /\ LET var == Top.var
           value == Top.vals[Top.k + 1]
           ok == no_conflicts(curr_domains, assignment, var, value)
           asg == With(assignment, var, value)
           doms == [curr_domains EXCEPT ![var] = <<value>>]
           here == [Top EXCEPT !.k = @ + 1,
                               !.removals = suppose_removals(curr_domains, var, value)]
       IN  IF ok = "Assert"
           THEN /\ pc' = "error"
                /\ UNCHANGED <<assignment, curr_domains, stack>>
           ELSE IF ok = "False"
           THEN /\ stack' = [stack EXCEPT ![Len(stack)].k = @ + 1]
                /\ UNCHANGED <<pc, assignment, curr_domains>>
           ELSE /\ assignment' = asg
                /\ curr_domains' = doms
                /\ IF Unassigned(asg) = {}
                   THEN /\ pc' = "solved"
                        /\ stack' = [stack EXCEPT ![Len(stack)] = here]
                   ELSE /\ pc' = "search"
                        /\ stack' = Append([stack EXCEPT ![Len(stack)] = here],
                                           Frame(select_unassigned_variable(select, doms, asg), doms))
    /\ UNCHANGED <<N, cage_board, cage_dict, nread, neighbors, queue, select>>

\* The top frame has tried every value: unassign its variable and return
\* failure to the caller, which restores the removals of its own value.
Backtrack ==
    /\ pc = "search"
    /\ Top.k = Len(Top.vals)
    /\ assignment' = Without(assignment, Top.var)
    /\ IF Len(stack) = 1
       THEN /\ pc' = "nosolution"
            /\ stack' = <<>>
            /\ UNCHANGED curr_domains
       ELSE LET caller == stack[Len(stack) - 1]
            IN  /\ pc' = "search"
                /\ stack' = Pop(stack)
                /\ curr_domains' = [curr_domains EXCEPT ![caller.var] = @ \o caller.removals]
    /\ UNCHANGED <<N, cage_board, cage_dict, nread, neighbors, queue, select>>

----------------------------------------------------------------------------
(* The CSP engine: AC-3.                                                   *)

Flatten(ss) ==
    LET F[k \in 0..Len(ss)] == IF k = 0 THEN <<>> ELSE F[k - 1] \o ss[k]
    IN  F[Len(ss)]

\* [(Xi, Xk) for Xi in variables for Xk in neighbors[Xi]]
all_arcs ==
    Flatten([i \in 1..(N * N) |->
                [k \in 1..Len(neighbors[i - 1]) |-> <<i - 1, neighbors[i - 1][k]>>]])

\* all(not constraints(Xi, x, Xj, y) for y in curr_domains[Xj]), from the
\* k-th value on: "True", "False", or the assertion raised on the way.
RECURSIVE all_conflict(_, _, _, _, _)
all_conflict(doms, Xi, x, Xj, k) ==
    IF k > Len(doms[Xj]) THEN "True"
    ELSE LET r == constraints(doms, Xi, x, Xj, doms[Xj][k])
         IN  IF IsAssert(r) THEN r
             ELSE IF r = "True" THEN "False"
             ELSE all_conflict(doms, Xi, x, Xj, k + 1)

\* revise(csp, Xi, Xj) over the values xs (a copy of Xi's domain) from the
\* k-th on: the domains after the prunings, whether any was made, and
\* whether an assertion was raised.
RECURSIVE revise_loop(_, _, _, _, _, _)
revise_loop(doms, Xi, Xj, xs, k, revised) ==
    IF k > Len(xs) THEN [doms |-> doms, revised |-> revised, raised |-> FALSE]
    ELSE LET r == all_conflict(doms, Xi, xs[k], Xj, 1)
         IN  IF IsAssert(r) THEN [doms |-> doms, revised |-> revised, raised |-> TRUE]
             ELSE IF r = "True"
             THEN revise_loop([doms EXCEPT ![Xi] = SelectSeq(@, LAMBDA v : v # xs[k])],
                              Xi, Xj, xs, k + 1, TRUE)
             ELSE revise_loop(doms, Xi, Xj, xs, k + 1, revised)

revise(doms, Xi, Xj) == revise_loop(doms, Xi, Xj, doms[Xi], 1, FALSE)

\* The arcs (Xk, Xi) for the neighbors Xk of Xi other than Xj.
back_arcs(Xi, Xj) ==
    LET others == SelectSeq(neighbors[Xi], LAMBDA Xk : Xk # Xj)
    IN  [k \in 1..Len(others) |-> <<others[k], Xi>>]

\* csp.AC3(kenken_csp), line 247: the worklist of every arc.
StartAC3 ==
    /\ pc = "ready"
    /\ select = "first"
    /\ queue' = all_arcs
    /\ pc' = "ac3"
    /\ UNCHANGED <<N, cage_board, cage_dict, nread, neighbors, curr_domains, assignment,
                   stack, select>>

\* One iteration of AC-3's loop: pop an arc and revise it.  When the
\* worklist empties or a domain does, AC3 returns; line 248 then searches
\* with mrv whatever AC3 returned.
AC3Step ==
    /\ pc = "ac3"
    /\ queue # <<>>
    /\ LET Xi == queue[Len(queue)][1]
           Xj == queue[Len(queue)][2]
           rest == Pop(queue)
           r == revise(curr_domains, Xi, Xj)
           q == IF r.revised THEN rest \o back_arcs(Xi, Xj) ELSE rest
       IN  IF r.raised
           THEN /\ pc' = "error"
                /\ UNCHANGED <<curr_domains, queue, select>>
           ELSE /\ curr_domains' = r.doms
                /\ IF (r.revised /\ r.doms[Xi] = <<>>) \/ q = <<>>
                   THEN /\ pc' = "ready"
                        /\ select' = "mrv"
                        /\ queue' = <<>>
                   ELSE /\ pc' = "ac3"
                        /\ queue' = q
                        /\ UNCHANGED select
    /\ UNCHANGED <<N, cage_board, cage_dict, nread, neighbors, assignment, stack>>

----------------------------------------------------------------------------
(* Specifications.  After construction a run either searches the problem  *)
(* as built, or prunes it with AC-3 and then searches it with mrv.         *)

Run ==
    \/ ReadGoal
    \/ BuildNeighbors
    \/ NewCSP
    \/ StartSearch
    \/ TryValue
    \/ Backtrack
    \/ StartAC3
    \/ AC3Step

Next == ReadBoard \/ Run

Spec == Init /\ [][Next]_vars

NextOneCage == ReadOneCageBoard \/ Run

SpecOneCage == Init /\ [][NextOneCage]_vars

----------------------------------------------------------------------------
(* Vocabulary of the properties, stated without the program's own tables.  *)

KnownOprs == {"+", "-", "*", "/", "="}

\* Construction has succeeded and the CSP object exists.
Constructed == pc \in {"ready", "ac3", "search", "solved", "nosolution", "error"}

Vals == 1..N

Row(v) == v \div N

Col(v) == v % N

SameLine(A, B) == A # B /\ (Row(A) = Row(B) \/ Col(A) = Col(B))

RECURSIVE SumOver(_, _)
SumOver(f, S) ==
    IF S = {} THEN 0 ELSE LET v == CHOOSE w \in S : TRUE IN f[v] + SumOver(f, S \ {v})

RECURSIVE ProductOver(_, _)
ProductOver(f, S) ==
    IF S = {} THEN 1 ELSE LET v == CHOOSE w \in S : TRUE IN f[v] * ProductOver(f, S \ {v})

Members(id) == {v \in variables(N) : cage_board[<<Row(v), Col(v)>>] = id}

\* The goal relation of a difference or quotient cage between two values.
GoalRelation(opr, goal, x, y) ==
    IF opr = "-" THEN (x - y = goal \/ y - x = goal)
    ELSE (x >= y /\ x = y * goal) \/ (y >= x /\ y = x * goal)

\* The cage id's goal holds of the complete assignment f.
GoalHolds(id, f) ==
    LET opr == cage_dict[id].opr
        goal == cage_dict[id].goal
        M == Members(id)
    IN  CASE opr = "+" -> SumOver(f, M) = goal
          [] opr = "*" -> ProductOver(f, M) = goal
          [] opr \in {"-", "/"} ->
                \E x \in M, y \in M : x # y /\ M = {x, y} /\ GoalRelation(opr, goal, f[x], f[y])
          [] opr = "=" -> \E x \in M : M = {x} /\ f[x] = goal
          [] OTHER -> FALSE

Latin(f) == \A A \in DOMAIN f, B \in DOMAIN f : SameLine(A, B) => f[A] # f[B]

\* The valid complete solutions of the puzzle.
Solutions ==
    {f \in [variables(N) -> Vals] :
        Latin(f) /\ \A id \in DOMAIN cage_dict : GoalHolds(id, f)}

----------------------------------------------------------------------------
(* Claims.                                                                 *)

\* C1: every complete assignment the backtracking search returns as a
\* solution satisfies the goal of every sum, product, difference, quotient
\* and fixed-value cage.
C1_SolutionSatisfiesCages ==
    pc = "solved" =>
        \A id \in DOMAIN cage_dict :
            cage_dict[id].opr \in KnownOprs => GoalHolds(id, assignment)

\* C2: no two assigned variables of one row or column hold equal values, in
\* every search state and in every returned solution; and the predicate is
\* false for two neighbors with equal values whatever the cages and domains.
C2_DistinctInRowsAndColumns ==
    /\ pc \in {"search", "solved"} => Latin(assignment)
    /\ Constructed =>
          \A A \in variables(N), B \in variables(N), a \in Vals :
              SameLine(A, B) => constraints(curr_domains, A, a, B, a) = "False"

\* C2's case: a returned solution on a board with rows and columns of two.
C2_Witness ==
    /\ pc = "solved"
    /\ N >= 2
    /\ DOMAIN assignment = variables(N)

\* C3: AC-3 never removes from a domain a value that some valid complete
\* solution gives to that variable, for every cage operator.
C3_AC3Sound ==
    (pc = "ac3" \/ (pc = "ready" /\ select = "mrv")) =>
        \A f \in Solutions : \A v \in variables(N) : InList(f[v], curr_domains[v])

\* The member count the operator of a cage requires, if any, is met.
ArityMet(cage) ==
    /\ cage.opr \in {"-", "/"} => Len(cage.vars) = 2
    /\ cage.opr = "=" => Len(cage.vars) = 1

\* C4: construction fails, before any predicate evaluation or search step,
\* whenever a difference or quotient cage does not have exactly 2 members or
\* a fixed-value cage does not have exactly 1; it fails on arity grounds for
\* no other cage.
C4_ArityRejectedAtConstruction ==
    /\ pc # "config_error" => \A id \in DOMAIN cage_dict : ArityMet(cage_dict[id])
    /\ pc = "config_error" =>
          /\ \E id \in DOMAIN cage_dict : ~ArityMet(cage_dict[id])
          /\ neighbors = <<>> /\ curr_domains = <<>>
          /\ assignment = <<>> /\ stack = <<>> /\ queue = <<>>

\* C4's case: construction has failed on a difference cage of 3 members.
C4_Witness ==
    /\ pc = "config_error"
    /\ \E id \in DOMAIN cage_dict :
          cage_dict[id].opr = "-" /\ Len(cage_dict[id].vars) = 3

\* C5: a puzzle with a cage whose operator is unknown, or that never
\* received an operator, aborts construction: no search or predicate
\* evaluation is in progress on such a puzzle.
C5_UnknownOperatorAbortsConstruction ==
    pc \in {"search", "ac3"} =>
        \A id \in DOMAIN cage_dict : cage_dict[id].opr \in KnownOprs

\* C6: the predicate is commutative: constraints(A, a, B, b) and
\* constraints(B, b, A, a) give the same result (true, false or the same
\* fatal error) for all distinct A, B, all values and the current domains.
C6_PredicateCommutative ==
    Constructed =>
        \A A \in variables(N), B \in variables(N), a \in Vals, b \in Vals :
            A # B => constraints(curr_domains, A, a, B, b) = constraints(curr_domains, B, b, A, a)

\* C7: once built, the neighbor relation is symmetric, irreflexive and
\* exactly the same-row-or-same-column relation, each variable has exactly
\* 2*(N-1) neighbors without duplicates, and it stays so in every later state.
C7_NeighborsAreRowsAndColumns ==
    pc \in {"built", "ready", "ac3", "search", "solved", "nosolution", "error"} =>
        /\ DOMAIN neighbors = variables(N)
        /\ \A A \in variables(N), B \in variables(N) :
              /\ InList(B, neighbors[A]) <=> SameLine(A, B)
              /\ InList(B, neighbors[A]) <=> InList(A, neighbors[B])
        /\ \A A \in variables(N) :
              /\ Len(neighbors[A]) = 2 * (N - 1)
              /\ \A i \in 1..Len(neighbors[A]), j \in 1..Len(neighbors[A]) :
                    i # j => neighbors[A][i] # neighbors[A][j]

\* C7's case: a search is running on a board of size 3 or more.
C7_Witness ==
    /\ pc = "search"
    /\ N >= 3
    /\ assignment # <<>>

\* The predicate is being evaluated: a search or AC-3 is in progress.
Evaluating == pc \in {"search", "ac3"}

\* Every cage carries one of the five operators.
WellFormed == \A id \in DOMAIN cage_dict : cage_dict[id].opr \in KnownOprs

ValuesOf(list) == {list[k] : k \in 1..Len(list)}

\* The current assignment extended by the tentative values of more.
Tentative(inferences, more) ==
    [v \in (DOMAIN inferences) \cup (DOMAIN more) |->
        IF v \in DOMAIN more THEN more[v] ELSE inferences[v]]

Only(A, a) == [v \in {A} |-> a]

Both(A, a, B, b) == [v \in {A, B} |-> IF v = A THEN a ELSE b]

\* The sum or product cage check as C8 states it, over the assignment asg.
RunningTotalCheck(id, asg) ==
    LET M == Members(id)
        done == M \cap DOMAIN asg
        total == IF cage_dict[id].opr = "*" THEN ProductOver(asg, done) ELSE SumOver(asg, done)
    IN  \/ total < cage_dict[id].goal /\ done # M
        \/ done = M /\ total = cage_dict[id].goal

\* C8: for a sum or product cage the cage check for tentative A = a (and
\* B = b) takes the running total over the assigned members including the
\* tentative a and b, and is true iff the total is below the goal with a
\* member unassigned, or all members are assigned and the total is the goal
\* (stated here for the puzzles whose cages all carry one of the five operators).
C8_CageCheckCountsTentativeValues ==
    (Evaluating /\ WellFormed) =>
        \A id \in DOMAIN cage_dict :
            cage_dict[id].opr \in {"+", "*"} =>
                LET fn == IF cage_dict[id].opr = "*" THEN "mul" ELSE "add"
                    inferences == infer_assignment(curr_domains)
                IN  \A A \in Members(id) : \A a \in ValuesOf(curr_domains[A]) :
                        /\ check_add_or_mul_cage(inferences, fn, A, a, None, None)
                               = RunningTotalCheck(id, Tentative(inferences, Only(A, a)))
                        /\ \A B \in Members(id) \ {A} : \A b \in ValuesOf(curr_domains[B]) :
                               check_add_or_mul_cage(inferences, fn, A, a, B, b)
                                   = RunningTotalCheck(id, Tentative(inferences, Both(A, a, B, b)))

CageOf(v) == cage_board[<<Row(v), Col(v)>>]

\* The check of X = x in a difference or quotient cage as C9 states it.
PartnerCheck(doms, X, x) ==
    LET id == CageOf(X)
        Y == CHOOSE v \in Members(id) : v # X
        inferences == infer_assignment(doms)
    IN  IF Y \in DOMAIN inferences
        THEN GoalRelation(cage_dict[id].opr, cage_dict[id].goal, x, inferences[Y])
        ELSE \E y \in ValuesOf(doms[Y]) :
                 GoalRelation(cage_dict[id].opr, cage_dict[id].goal, x, y)

\* The per-variable part of C9, for X = x in the current state.
PartnerCheckAgrees(X, x) ==
    cage_dict[CageOf(X)].opr \in {"-", "/"} =>
        check_cage_constraint(infer_assignment(curr_domains), curr_domains, X, x)
            = Bool(PartnerCheck(curr_domains, X, x))

\* The conjunction of the two per-variable checks.
BothChecks(A, a, B, b) ==
    AndThen(check_cage_constraint(infer_assignment(curr_domains), curr_domains, A, a),
            check_cage_constraint(infer_assignment(curr_domains), curr_domains, B, b))

\* C9 as stated: for two variables in different cages the check of a
\* variable in a difference or quotient cage tests the goal relation against
\* the partner's assigned value, or against some value left in the partner's
\* domain, and the predicate is the conjunction of the two checks (stated
\* here for the puzzles whose cages all carry one of the five operators).
C9_PredicateIsConjunctionOfChecks ==
    (Evaluating /\ WellFormed) =>
        /\ \A X \in variables(N), x \in Vals : PartnerCheckAgrees(X, x)
        /\ \A A \in variables(N), B \in variables(N), a \in Vals, b \in Vals :
              (A # B /\ CageOf(A) # CageOf(B)) =>
                  constraints(curr_domains, A, a, B, b) = BothChecks(A, a, B, b)

\* C9 amended: as C9, but when A and B share a row or column and a = b the
\* predicate is false without consulting the cages; otherwise it is the
\* conjunction of the two checks.
C9_ConjunctionUnlessNeighborClash ==
    Evaluating =>
        /\ \A X \in variables(N), x \in Vals : PartnerCheckAgrees(X, x)
        /\ \A A \in variables(N), B \in variables(N), a \in Vals, b \in Vals :
              (A # B /\ CageOf(A) # CageOf(B)) =>
                  constraints(curr_domains, A, a, B, b) =
                      IF SameLine(A, B) /\ a = b THEN "False" ELSE BothChecks(A, a, B, b)

\* C9's case: during a search a variable of a difference or quotient cage is
\* checked while its partner is assigned, and another while its partner is not.
C9_Witness ==
    /\ pc = "search"
    /\ \E X \in variables(N), Y \in variables(N) :
          /\ X # Y /\ CageOf(X) = CageOf(Y)
          /\ cage_dict[CageOf(X)].opr \in {"-", "/"}
          /\ Y \in DOMAIN infer_assignment(curr_domains)
          /\ X = Top.var
    /\ \E X \in variables(N), Y \in variables(N) :
          /\ X # Y /\ CageOf(X) = CageOf(Y)
          /\ cage_dict[CageOf(X)].opr \in {"-", "/"}
          /\ Y \notin DOMAIN infer_assignment(curr_domains)
          /\ X \in DOMAIN assignment

\* C10: after a successful construction the predicate never reaches the
\* same-cage branch of the fixed-value operator for two distinct variables:
\* every variable is in exactly one cage and a fixed-value cage has one member.
C10_FixedValueNeverPairs ==
    Constructed =>
        /\ \A A \in variables(N), B \in variables(N), a \in Vals, b \in Vals :
              A # B => constraints(curr_domains, A, a, B, b) # "AssertEq"
        /\ \A v \in variables(N) :
              Cardinality({id \in DOMAIN cage_dict : InList(v, cage_dict[id].vars)}) = 1
        /\ \A id \in DOMAIN cage_dict :
              cage_dict[id].opr = "=" => Len(cage_dict[id].vars) = 1

\* C10's case: a search is running on a puzzle with a fixed-value cage next
\* to a cage of several members.
C10_Witness ==
    /\ pc = "search"
    /\ assignment # <<>>
    /\ \E id \in DOMAIN cage_dict : cage_dict[id].opr = "="
    /\ \E id \in DOMAIN cage_dict : Len(cage_dict[id].vars) > 1

====
